---- MODULE Spec2Model ----
(***************************************************************************)
(* Taiwan Campervan AI Navigator: the conversation state machine of        *)
(* App.tsx (handleSubmit, handleClearHistory), the itinerary enricher      *)
(* (addWeatherToItinerary) and the forecast gateway (getWeatherForecast).  *)
(*                                                                         *)
(* Texts are sequences of symbols.  "D1" and "D2" stand for the heading    *)
(* markers "## Day 1:" and "## Day 2:", "x" for any other character that   *)
(* is not a line terminator, "nl" for a line terminator.  A spliced        *)
(* weather line is the single symbol "WF:<display>"; it begins with a      *)
(* line terminator in the source, so it never extends a heading.           *)
(* Instants are hours since 2024-01-01T00:00Z; NaN is the invalid Date.    *)
(*                                                                         *)
(* parseAndCleanJson and parseWaypointsFromResponse are modelled on JSON   *)
(* texts written character by character (SpecCalls); inside the            *)
(* conversation a labeled region is only absent, unparsable or an array.   *)
(***************************************************************************)
EXTENDS Integers, Sequences, FiniteSets, TLC

VARIABLES
    env,        \* host: time zone, Date-parser leniency, navigator.geolocation present
    messages,   \* useState<Message[]>
    prompt,     \* useState<string>, the input field
    isLoading,  \* useState<boolean>
    error,      \* useState<ReactNode | null>
    waypoints,  \* useState<Waypoint[]>
    pois,       \* useState<Poi[]>
    rounds,     \* the handleSubmit invocations that passed the guard, by number
    nextRound,  \* number of the next such invocation
    msgMeta,    \* history: which round appended / replaced each message
    lastOp,     \* history: the handler or continuation that ran last
    ej,         \* a direct call of addWeatherToItinerary
    pj          \* a direct call of a parser or of getWeatherForecast

\* ------------------------------------------------------------------ bounds
MaxTextLen == 4
MaxRounds == 2
MaxRecords == 2

\* ------------------------------------------------------------- calendar
NaN == -1

MonthDays == <<31, 29, 31, 30, 31, 30, 31, 31, 30, 31, 30, 31>>

RECURSIVE DaysBeforeMonth(_)
DaysBeforeMonth(m) == IF m <= 1 THEN 0 ELSE MonthDays[m - 1] + DaysBeforeMonth(m - 1)

\* Date.UTC day number of a year-month-day triple inside 2024; a day past the
\* end of its month rolls over into the next month, as MakeDay does.
DayIndex(d) == DaysBeforeMonth(d[2]) + d[3] - 1

IsCalendarDate(d) == /\ d[1] = 2024
                     /\ d[2] \in 1..12
                     /\ d[3] \in 1..MonthDays[d[2]]

\* The calendar date of a day number (inverse of DayIndex on real dates).
DateOfDay(n) == CHOOSE d \in {<<2024, m, k>> : m \in 1..12, k \in 1..31} :
                   IsCalendarDate(d) /\ DayIndex(d) = n

\* new Date("YYYY-MM-DD"): a date-only ISO string is UTC midnight.  Engines
\* differ on a day that exceeds its month but not 31: lenient ones accept it
\* and roll over, strict ones give the invalid Date.
NewDate(s, lenient) ==
    IF s[1] = 2024 /\ s[2] \in 1..12 /\ s[3] \in 1..31
       /\ (lenient \/ s[3] <= MonthDays[s[2]])
    THEN DayIndex(s) * 24
    ELSE NaN

\* Local-time offset (hours) of the host's time zone at UTC instant u.
DstBegin == DayIndex(<<2024, 3, 31>>) * 24 + 1
DstEnd == DayIndex(<<2024, 10, 27>>) * 24 + 1
StdOffset(tz) == IF tz = "Asia/Taipei" THEN 8 ELSE 1
DstOffset(tz) == IF tz = "Asia/Taipei" THEN 8 ELSE 2
Offset(tz, u) == IF u >= DstBegin /\ u < DstEnd THEN DstOffset(tz) ELSE StdOffset(tz)

\* UTC instant of a local wall-clock time (the offset before a transition
\* is used when the local time is skipped or repeated).
LocalToUTC(tz, local) ==
    IF Offset(tz, local - DstOffset(tz)) = DstOffset(tz)
    THEN local - DstOffset(tz)
    ELSE local - StdOffset(tz)

\* currentDate.setDate(currentDate.getDate() + 1): one local calendar day.
SetDatePlusOne(tz, u) == LocalToUTC(tz, u + Offset(tz, u) + 24)

\* currentDate.toISOString().split('T')[0]: the UTC calendar date.
DateForApi(u) == DateOfDay(u \div 24)

\* ---------------------------------------------------------- forecast gateway
Null == "null"
Undefined == -999

\* WMO_CODE_MAP[weatherCode] || { description: 'Weather', ... }
WmoDescription(code) == IF code = 0 THEN "Clear sky"
                        ELSE IF code = 3 THEN "Overcast"
                        ELSE IF code = 61 THEN "Slight rain"
                        ELSE "Weather"

\* series[0] of a daily series; undefined when the series is empty.
First(series) == IF Len(series) > 0 THEN series[1] ELSE Undefined

\* Math.round(v) inside a template string; Math.round(undefined) is NaN.
RoundStr(v) == IF v = Undefined THEN "NaN" ELSE ToString(v)

\* getWeatherForecast over the outcome o of fetch and response.json().
GetWeatherForecast(o) ==
    IF o.kind = "networkError" THEN Null
    ELSE IF ~o.ok THEN Null
    ELSE IF o.kind = "badJson" THEN Null
    ELSE IF o.kind = "noDaily" THEN Null
    ELSE WmoDescription(First(o.weathercode)) \o ", " \o RoundStr(First(o.tmin))
         \o "C to " \o RoundStr(First(o.tmax)) \o "C"

FetchOutcomes ==
    { [kind |-> "networkError", ok |-> FALSE, weathercode |-> <<>>, tmin |-> <<>>, tmax |-> <<>>],
      [kind |-> "daily", ok |-> FALSE, weathercode |-> <<>>, tmin |-> <<>>, tmax |-> <<>>],
      [kind |-> "badJson", ok |-> TRUE, weathercode |-> <<>>, tmin |-> <<>>, tmax |-> <<>>],
      [kind |-> "noDaily", ok |-> TRUE, weathercode |-> <<>>, tmin |-> <<>>, tmax |-> <<>>],
      [kind |-> "daily", ok |-> TRUE, weathercode |-> <<>>, tmin |-> <<>>, tmax |-> <<>>],
      [kind |-> "daily", ok |-> TRUE, weathercode |-> <<0>>, tmin |-> <<20>>, tmax |-> <<25>>],
      [kind |-> "daily", ok |-> TRUE, weathercode |-> <<61>>, tmin |-> <<18>>, tmax |-> <<21>>] }

\* ------------------------------------------------------------------ texts
Sym == {"D1", "D2", "x", "nl"}
IsDayMarker(c) == c \in {"D1", "D2"}
\* Symbols "." matches; every other symbol is or begins with a line terminator.
Dot == {"D1", "D2", "x"}

\* End of the match of ".*" that starts at p: up to the next line terminator.
RECURSIVE LineEnd(_, _)
LineEnd(text, p) ==
    IF p < Len(text) /\ text[p + 1] \in Dot
    THEN LineEnd(text, p + 1) ELSE p

\* [...itineraryText.matchAll(/(## Day \d+:.*)/g)]: the match spans <<from, to>>
\* in document order, scanning from position p.
RECURSIVE HeadingSpans(_, _)
HeadingSpans(text, p) ==
    IF p > Len(text) THEN <<>>
    ELSE IF IsDayMarker(text[p])
         THEN <<<<p, LineEnd(text, p)>>>> \o HeadingSpans(text, LineEnd(text, p) + 1)
         ELSE HeadingSpans(text, p + 1)

DayHeadings(text) ==
    LET spans == HeadingSpans(text, 1)
    IN  [k \in 1..Len(spans) |-> SubSeq(text, spans[k][1], spans[k][2])]

\* Position of the first occurrence of pat in text at or after p, 0 if none.
RECURSIVE IndexOf(_, _, _)
IndexOf(text, pat, p) ==
    IF p + Len(pat) - 1 > Len(text) THEN 0
    ELSE IF SubSeq(text, p, p + Len(pat) - 1) = pat THEN p
    ELSE IndexOf(text, pat, p + 1)

\* String.prototype.replace with a string pattern: first occurrence only.
ReplaceFirst(text, pat, repl) ==
    LET at == IndexOf(text, pat, 1)
    IN  IF at = 0 THEN text
        ELSE SubSeq(text, 1, at - 1) \o repl \o SubSeq(text, at + Len(pat), Len(text))

Unavailable == "Forecast unavailable"
WeatherHtml(display) == "WF:" \o display

\* ---------------------------------------------------------------- enricher
\* waypoints[i + 1] || waypoints[waypoints.length - 1], i counted from 0.
LocationFor(wps, i) == IF i + 2 <= Len(wps) THEN wps[i + 2] ELSE wps[Len(wps)]

\* The for loop of addWeatherToItinerary from its head: headings without a
\* location only advance the date; the first heading with one issues the
\* forecast request and suspends; past the last heading the function returns.
RECURSIVE EnrichLoop(_, _)
EnrichLoop(tz, job) ==
    IF job.i >= Len(job.dayHeadings)
    THEN [job EXCEPT !.status = "returned"]
    ELSE IF Len(job.waypoints) > 0
         THEN [job EXCEPT !.status = "awaitWeather",
                          !.reqs = Append(@, [lat |-> LocationFor(job.waypoints, job.i).lat,
                                              lng |-> LocationFor(job.waypoints, job.i).lng,
                                              date |-> DateForApi(job.currentDate)])]
         ELSE EnrichLoop(tz, [job EXCEPT !.i = @ + 1,
                                         !.currentDate = SetDatePlusOne(tz, @)])

\* Variant without the isNaN(startDate.getTime()) early return.
AddWeatherToItinerary_NoDateCheck(e, itineraryText, wps, startDateStr) ==
    LET startDate == NewDate(startDateStr, e.lenient)
    IN  EnrichLoop(e.tz,
          [itineraryText |-> itineraryText, waypoints |-> wps,
           startDateStr |-> startDateStr,
           dayHeadings |-> DayHeadings(itineraryText), i |-> 0,
           currentDate |-> IF startDate = NaN THEN 0 ELSE startDate,
           updatedItinerary |-> itineraryText,
           reqs |-> <<>>, infos |-> <<>>, status |-> "returned"])

\* addWeatherToItinerary up to its first suspension (or its return).
AddWeatherToItinerary(e, itineraryText, wps, startDateStr) ==
    LET startDate == NewDate(startDateStr, e.lenient)
        job == [itineraryText |-> itineraryText, waypoints |-> wps,
                startDateStr |-> startDateStr,
                dayHeadings |-> DayHeadings(itineraryText), i |-> 0,
                currentDate |-> startDate, updatedItinerary |-> itineraryText,
                reqs |-> <<>>, infos |-> <<>>, status |-> "returned"]
    IN  IF startDate = NaN THEN job ELSE EnrichLoop(e.tz, job)

\* The loop body after getWeatherForecast resolved with weatherInfo.
EnrichResume(e, job, weatherInfo) ==
    LET heading == job.dayHeadings[job.i + 1]
        weatherDisplay == IF weatherInfo = Null THEN Unavailable ELSE weatherInfo
        weatherHtml == WeatherHtml(weatherDisplay)
    IN  EnrichLoop(e.tz,
          [job EXCEPT !.updatedItinerary = ReplaceFirst(@, heading, Append(heading, weatherHtml)),
                      !.infos = Append(@, weatherInfo),
                      !.i = @ + 1,
                      !.currentDate = SetDatePlusOne(e.tz, @)])

\* ----------------------------------------------------------------- inputs
RECURSIVE SeqsUpTo(_, _)
SeqsUpTo(S, n) == IF n = 0 THEN {<<>>}
                  ELSE SeqsUpTo(S, n - 1) \cup
                       {Append(t, c) : t \in {u \in SeqsUpTo(S, n - 1) : Len(u) = n - 1}, c \in S}

Texts == SeqsUpTo(Sym, MaxTextLen)

WpA == [name |-> "A", lat |-> 25, lng |-> 121]
WpB == [name |-> "B", lat |-> 24, lng |-> 121]
WpC == [name |-> "C", lat |-> 23, lng |-> 120]
WaypointLists == {<<>>, <<WpA>>, <<WpA, WpB>>, <<WpA, WpB, WpC>>}

StartDateTexts == {<<2024, 7, 22>>, <<2024, 3, 30>>, <<2024, 3, 31>>,
                   <<2024, 2, 30>>, <<2024, 13, 45>>}

TimeZones == {"Asia/Taipei", "Europe/Berlin"}

NoJob == [status |-> "idle"]
NoCall == [fn |-> "idle"]

\* ------------------------------------------------------ conversation state
initialMessage == [role |-> "assistant", content |-> <<"Welcome!">>]

Taipei == [latitude |-> 250330, longitude |-> 1215654]
DevicePosition == [latitude |-> 226273, longitude |-> 1203014]

GeoUnsupported == "Geolocation is not supported by your browser."
KeyInvalid == "The Gemini API key is invalid. Please check your environment variable configuration."
NoResponse == "Failed to get a response from the AI. Please try again."
WaypointsInvalid == "Failed to parse waypoints from AI response or data was invalid."
PoisInvalid == "Failed to parse points of interest from AI response or data was invalid."

\* prompt.trim()
RECURSIVE TrimStart(_)
TrimStart(p) == IF Len(p) > 0 /\ Head(p) = " " THEN TrimStart(Tail(p)) ELSE p
RECURSIVE TrimEnd(_)
TrimEnd(p) == IF Len(p) > 0 /\ p[Len(p)] = " " THEN TrimEnd(SubSeq(p, 1, Len(p) - 1)) ELSE p
Trim(p) == TrimEnd(TrimStart(p))

\* What the user types into the (initially empty) field: blanks only, or a
\* padded request.
PromptTexts == {<<" ", " ">>, <<" ", "g", " ">>}

\* A provider response: the START_DATE label (<<>> when absent), the itinerary
\* body, and the labeled WAYPOINTS / POIS regions.  A region is absent, or its
\* text goes through parseAndCleanJson, which yields null or an array.
NoRegion == [label |-> FALSE, parses |-> FALSE, items |-> <<>>]
BadRegion == [label |-> TRUE, parses |-> FALSE, items |-> <<>>]
Region(items) == [label |-> TRUE, parses |-> TRUE, items |-> items]

PoiT == [name |-> "Taipei 101", address |-> "Xinyi", lat |-> 25, lng |-> 121]

ProviderResponses ==
    { [id |-> "full", startDate |-> <<2024, 7, 22>>, body |-> <<"D1", "x">>,
       wp |-> Region(<<WpA, WpB, WpC>>), poi |-> Region(<<PoiT>>)],
      [id |-> "recommend", startDate |-> <<2024, 7, 22>>, body |-> <<"D1">>,
       wp |-> Region(<<>>), poi |-> Region(<<PoiT>>)],
      [id |-> "noDate", startDate |-> <<>>, body |-> <<"D1">>,
       wp |-> Region(<<WpA, WpB>>), poi |-> BadRegion],
      [id |-> "badDate", startDate |-> <<2024, 13, 45>>, body |-> <<"D1">>,
       wp |-> Region(<<WpA, WpB>>), poi |-> Region(<<[name |-> "N", lat |-> 1, lng |-> 2]>>)],
      [id |-> "badWaypoints", startDate |-> <<2024, 7, 22>>, body |-> <<"D1">>,
       wp |-> BadRegion, poi |-> Region(<<PoiT>>)],
      [id |-> "badShape", startDate |-> <<>>, body |-> <<"D1">>,
       wp |-> Region(<<[name |-> "N", lat |-> 1]>>), poi |-> BadRegion] }

\* The response as one string: the START_DATE line, the itinerary, then the
\* WAYPOINTS and POIS lines.
RawText(resp) == <<"START_DATE.." \o resp.id>> \o resp.body \o <<"..WAYPOINTS..POIS">>

\* parseStartDateFromResponse: the labeled date or null (<<>>).
ParseStartDateFromResponse(resp) == resp.startDate

HasKeys(item, keys) == keys \subseteq DOMAIN item

ParseRegion_NoError(region, keys, msg) ==
    IF ~region.label THEN [list |-> <<>>, err |-> Null]
    ELSE IF region.parses /\ \A k \in 1..Len(region.items) : HasKeys(region.items[k], keys)
         THEN [list |-> region.items, err |-> Null]
         ELSE [list |-> <<>>, err |-> Null]

\* parseWaypointsFromResponse / parsePoisFromResponse: the list and the
\* setError call made on a parse or shape failure (Null: none made).
ParseRegion(region, keys, msg) ==
    IF ~region.label THEN [list |-> <<>>, err |-> Null]
    ELSE IF region.parses /\ \A k \in 1..Len(region.items) : HasKeys(region.items[k], keys)
         THEN [list |-> region.items, err |-> Null]
         ELSE [list |-> <<>>, err |-> msg]

ParseWaypointsFromResponse(resp) == ParseRegion(resp.wp, {"name", "lat", "lng"}, WaypointsInvalid)
ParsePoisFromResponse(resp) ==
    ParseRegion(resp.poi, {"name", "address", "lat", "lng"}, PoisInvalid)

Unused == [pc |-> "unused"]

RoundIds == 1..MaxRounds
Started(r) == rounds[r].pc # "unused"
Awaiting(r) == rounds[r].pc \in {"awaitPosition", "awaitItinerary"}

Op(name, r) == [op |-> name, round |-> r]

\* History entry of a message: the round that appended it, as what, and the
\* round whose enrichment last replaced it (0: none).
Meta(r, kind) == [round |-> r, kind |-> kind, by |-> 0]

\* setMessages(prev => [...prev, m])
AppendMessage(msgs, role, content) == Append(msgs, [role |-> role, content |-> content])
ReplaceLast_Appends(msgs, content) == AppendMessage(msgs, "assistant", content)

\* setMessages(prev => [...prev.slice(0, -1), finalAssistantMessage])
ReplaceLast(msgs, content) ==
    Append(SubSeq(msgs, 1, Len(msgs) - 1), [role |-> "assistant", content |-> content])

ErrorText(msg) == <<"Sorry, I ran into an error: ", msg>>

Init ==
    /\ env \in [tz : {"Asia/Taipei"}, lenient : {TRUE}, geolocation : BOOLEAN]
    /\ messages = <<initialMessage>>
    /\ prompt = <<>>
    /\ isLoading = FALSE
    /\ error = Null
    /\ waypoints = <<>>
    /\ pois = <<>>
    /\ rounds = [r \in RoundIds |-> Unused]
    /\ nextRound = 1
    /\ msgMeta = <<Meta(0, "welcome")>>
    /\ lastOp = Op("init", 0)
    /\ ej = NoJob
    /\ pj = NoCall

\* onChange of the input field, which is disabled while loading.
SetPrompt ==
    /\ ~isLoading
    /\ \E p \in PromptTexts : prompt' = p
    /\ lastOp' = Op("type", 0)
    /\ UNCHANGED <<env, messages, isLoading, error, waypoints, pois, rounds, nextRound,
                   msgMeta, ej, pj>>

\* A handleSubmit invocation that passed the guard: where it is suspended, the
\* values its closure holds, and history of what it did (requests made to the
\* provider, whether the response qualified for enrichment, forecast requests
\* made, whether it applied its replacement, which round replaced its raw
\* message, whether its raw message is still the last one appended with no
\* clear since).  A finished invocation keeps only the history.
NewRound(pc, p, geo) ==
    [pc |-> pc, prompt |-> p, geo |-> geo, genReqs |-> <<>>, job |-> NoJob,
     eligible |-> FALSE, forecastCalls |-> 0, replaced |-> FALSE, rawReplacedBy |-> 0,
     intact |-> FALSE]

Finished(rec, pc) ==
    [rec EXCEPT !.pc = pc, !.prompt = <<>>, !.geo = "-", !.genReqs = <<>>, !.job = NoJob,
                !.intact = FALSE]

\* History: a message was appended or the history cleared.
Touched(rs) == [r \in DOMAIN rs |-> IF rs[r].pc = "unused" THEN rs[r]
                                    ELSE [rs[r] EXCEPT !.intact = FALSE]]

SubmitRejected_IgnoresLoading == Trim(prompt) = <<>>
SubmitRejected_NoTrim == prompt = <<>> \/ isLoading

\* The guard of handleSubmit.
SubmitRejected == Trim(prompt) = <<>> \/ isLoading

HandleSubmit_KeepsLists ==
    /\ lastOp' = Op("submit", 0)
    /\ IF SubmitRejected
       THEN UNCHANGED <<env, messages, prompt, isLoading, error, waypoints, pois, rounds,
                        nextRound, msgMeta, ej, pj>>
       ELSE /\ nextRound <= MaxRounds
            /\ UNCHANGED <<waypoints, pois>>
            /\ nextRound' = nextRound + 1
            /\ IF env.geolocation
               THEN /\ error' = Null
                    /\ isLoading' = TRUE
                    /\ messages' = AppendMessage(messages, "user", prompt)
                    /\ msgMeta' = Append(msgMeta, Meta(nextRound, "user"))
                    /\ rounds' = [Touched(rounds) EXCEPT ![nextRound] =
                                    NewRound("awaitPosition", prompt, "pending")]
                    /\ UNCHANGED prompt
               ELSE /\ error' = GeoUnsupported
                    /\ isLoading' = FALSE
                    /\ prompt' = <<>>
                    /\ messages' = AppendMessage(AppendMessage(messages, "user", prompt),
                                                 "assistant", ErrorText(GeoUnsupported))
                    /\ msgMeta' = msgMeta \o <<Meta(nextRound, "user"),
                                               Meta(nextRound, "error")>>
                    /\ rounds' = [Touched(rounds) EXCEPT ![nextRound] =
                                    Finished(NewRound("failed", prompt, "unsupported"),
                                             "failed")]
            /\ UNCHANGED <<env, ej, pj>>

\* handleSubmit up to its first suspension.  Without navigator.geolocation
\* getCurrentPosition rejects at once, so catch and finally run before any
\* other event.
HandleSubmit ==
    /\ lastOp' = Op("submit", 0)
    /\ IF SubmitRejected
       THEN UNCHANGED <<env, messages, prompt, isLoading, error, waypoints, pois, rounds,
                        nextRound, msgMeta, ej, pj>>
       ELSE /\ nextRound <= MaxRounds
            /\ waypoints' = <<>>
            /\ pois' = <<>>
            /\ nextRound' = nextRound + 1
            /\ IF env.geolocation
               THEN /\ error' = Null
                    /\ isLoading' = TRUE
                    /\ messages' = AppendMessage(messages, "user", prompt)
                    /\ msgMeta' = Append(msgMeta, Meta(nextRound, "user"))
                    /\ rounds' = [Touched(rounds) EXCEPT ![nextRound] =
                                    NewRound("awaitPosition", prompt, "pending")]
                    /\ UNCHANGED prompt
               ELSE /\ error' = GeoUnsupported
                    /\ isLoading' = FALSE
                    /\ prompt' = <<>>
                    /\ messages' = AppendMessage(AppendMessage(messages, "user", prompt),
                                                 "assistant", ErrorText(GeoUnsupported))
                    /\ msgMeta' = msgMeta \o <<Meta(nextRound, "user"),
                                               Meta(nextRound, "error")>>
                    /\ rounds' = [Touched(rounds) EXCEPT ![nextRound] =
                                    Finished(NewRound("failed", prompt, "unsupported"),
                                             "failed")]
            /\ UNCHANGED <<env, ej, pj>>

PositionFor_NoDefault(outcome) ==
    IF outcome = "granted" THEN DevicePosition ELSE [latitude |-> 0, longitude |-> 0]

\* The value getCurrentPosition resolves with: the device position on
\* success, the Taipei default from the error callback.
PositionFor(outcome) == IF outcome = "granted" THEN DevicePosition ELSE Taipei

\* navigator.geolocation.getCurrentPosition calls back: success, or error
\* (permission denied).  handleSubmit then calls
\* generateItinerary(prompt, position).
PositionResolve(r, outcome) ==
    /\ rounds[r].pc = "awaitPosition"
    /\ LET position == PositionFor(outcome)
       IN  rounds' = [rounds EXCEPT ![r].pc = "awaitItinerary",
                                    ![r].geo = outcome,
                                    ![r].genReqs = Append(@, [prompt |-> rounds[r].prompt,
                                                              position |-> position])]
    /\ lastOp' = Op("position", r)
    /\ UNCHANGED <<env, messages, prompt, isLoading, error, waypoints, pois, nextRound,
                   msgMeta, ej, pj>>

\* History of a replacement by round r: which round's raw message it hit.
MarkReplaced(rs, meta, r) ==
    LET hit == meta[Len(meta)]
        rs1 == [rs EXCEPT ![r].replaced = TRUE]
    IN  IF hit.kind = "raw" THEN [rs1 EXCEPT ![hit.round].rawReplacedBy = r] ELSE rs1

MetaReplaced(meta, r) == [meta EXCEPT ![Len(meta)].by = r]

ShouldEnrich_DateOnly(startDate, newWaypoints) == startDate # <<>>

\* if (startDate && newWaypoints.length > 0)
ShouldEnrich(startDate, newWaypoints) == startDate # <<>> /\ Len(newWaypoints) > 0

LoadingAfterRender_Stays(job) == TRUE
LoadingAfterRender_UntilEnriched(job) == job # NoJob /\ job.status = "awaitWeather"

\* finally: setIsLoading(false) runs when the try block ends, which is after
\* the render and the start of the enrichment, never after its completion.
LoadingAfterRender(job) == FALSE

ReplaceThenRender(msgs, rawResponse, enriched) ==
    AppendMessage(ReplaceLast(msgs, enriched), "assistant", rawResponse)

\* setMessages(prev => [...prev, assistantMessage]) is queued before the
\* then-callback's setMessages(prev => [...prev.slice(0, -1), final]).
RenderThenReplace(msgs, rawResponse, enriched) ==
    ReplaceLast(AppendMessage(msgs, "assistant", rawResponse), enriched)

\* generateItinerary resolved with rawResponse: extraction, the immediate
\* render, the start of enrichment, then finally.  An enrichment that
\* returns without suspending applies its replacement before any other event.
ItineraryResolve(r, resp) ==
    /\ rounds[r].pc = "awaitItinerary"
    /\ LET rawResponse == RawText(resp)
           startDate == ParseStartDateFromResponse(resp)
           wp == ParseWaypointsFromResponse(resp)
           poi == ParsePoisFromResponse(resp)
           rendered == AppendMessage(messages, "assistant", rawResponse)
           meta == Append(msgMeta, Meta(r, "raw"))
           job == IF ShouldEnrich(startDate, wp.list)
                  THEN AddWeatherToItinerary(env, rawResponse, wp.list, startDate)
                  ELSE NoJob
           rs == [Touched(rounds) EXCEPT ![r].pc = "enriching",
                                ![r].job = job,
                                ![r].intact = TRUE,
                                ![r].eligible = resp.startDate # <<>> /\ wp.list # <<>>,
                                ![r].forecastCalls = IF job = NoJob THEN 0 ELSE Len(job.reqs)]
       IN  /\ error' = IF poi.err # Null THEN poi.err
                       ELSE IF wp.err # Null THEN wp.err ELSE error
           /\ waypoints' = wp.list
           /\ pois' = poi.list
           /\ IF job.status = "awaitWeather"
              THEN /\ messages' = rendered
                   /\ msgMeta' = meta
                   /\ rounds' = rs
              ELSE IF job.status = "returned"
              THEN /\ messages' = RenderThenReplace(messages, rawResponse,
                                                     job.updatedItinerary)
                   /\ msgMeta' = MetaReplaced(meta, r)
                   /\ rounds' = [MarkReplaced(rs, meta, r) EXCEPT ![r] = Finished(@, "done")]
              ELSE /\ messages' = rendered
                   /\ msgMeta' = meta
                   /\ rounds' = [rs EXCEPT ![r] = Finished(@, "done")]
    /\ isLoading' = LoadingAfterRender(rounds'[r].job)
    /\ prompt' = <<>>
    /\ lastOp' = Op("itinerary", r)
    /\ UNCHANGED <<env, nextRound, ej, pj>>

ItineraryReject_NoFinally(r, msg) ==
    /\ rounds[r].pc = "awaitItinerary"
    /\ error' = msg
    /\ messages' = AppendMessage(messages, "assistant", ErrorText(msg))
    /\ msgMeta' = Append(msgMeta, Meta(r, "error"))
    /\ rounds' = [Touched(rounds) EXCEPT ![r] = Finished(@, "failed")]
    /\ lastOp' = Op("itineraryFailed", r)
    /\ UNCHANGED <<env, prompt, isLoading, waypoints, pois, nextRound, ej, pj>>

\* generateItinerary threw: catch, then finally.
ItineraryReject(r, msg) ==
    /\ rounds[r].pc = "awaitItinerary"
    /\ error' = msg
    /\ messages' = AppendMessage(messages, "assistant", ErrorText(msg))
    /\ msgMeta' = Append(msgMeta, Meta(r, "error"))
    /\ rounds' = [Touched(rounds) EXCEPT ![r] = Finished(@, "failed")]
    /\ isLoading' = FALSE
    /\ prompt' = <<>>
    /\ lastOp' = Op("itineraryFailed", r)
    /\ UNCHANGED <<env, waypoints, pois, nextRound, ej, pj>>

\* The pending getWeatherForecast of round r's enrichment settles; when the
\* enrichment returns, its then-callback replaces the last message.
WeatherResolve(r, o) ==
    /\ rounds[r].pc = "enriching"
    /\ LET job == EnrichResume(env, rounds[r].job, GetWeatherForecast(o))
           rs == [rounds EXCEPT ![r].job = job, ![r].forecastCalls = Len(job.reqs)]
       IN  IF job.status = "returned"
           THEN /\ messages' = ReplaceLast(messages, job.updatedItinerary)
                /\ msgMeta' = MetaReplaced(msgMeta, r)
                /\ rounds' = [MarkReplaced(rs, msgMeta, r) EXCEPT ![r] = Finished(@, "done")]
                /\ lastOp' = Op("enriched", r)
           ELSE /\ rounds' = rs
                /\ lastOp' = Op("weather", r)
                /\ UNCHANGED <<messages, msgMeta>>
    /\ UNCHANGED <<env, prompt, isLoading, error, waypoints, pois, nextRound, ej, pj>>

HandleClearHistory_KeepsError ==
    /\ messages' = <<initialMessage>>
    /\ waypoints' = <<>>
    /\ pois' = <<>>
    /\ msgMeta' = <<Meta(0, "welcome")>>
    /\ rounds' = Touched(rounds)
    /\ lastOp' = Op("clear", 0)
    /\ UNCHANGED <<env, prompt, isLoading, error, nextRound, ej, pj>>

\* handleClearHistory
HandleClearHistory ==
    /\ messages' = <<initialMessage>>
    /\ waypoints' = <<>>
    /\ pois' = <<>>
    /\ error' = Null
    /\ msgMeta' = <<Meta(0, "welcome")>>
    /\ rounds' = Touched(rounds)
    /\ lastOp' = Op("clear", 0)
    /\ UNCHANGED <<env, prompt, isLoading, nextRound, ej, pj>>

AppFetchOutcomes == {o \in FetchOutcomes : o.kind = "networkError" \/ o.weathercode = <<0>>}

Next ==
    \/ SetPrompt
    \/ HandleSubmit
    \/ \E r \in RoundIds, outcome \in {"granted", "denied"} : PositionResolve(r, outcome)
    \/ \E r \in RoundIds, resp \in ProviderResponses : ItineraryResolve(r, resp)
    \/ \E r \in RoundIds, msg \in {KeyInvalid, NoResponse} : ItineraryReject(r, msg)
    \/ \E r \in RoundIds, o \in AppFetchOutcomes : WeatherResolve(r, o)
    \/ HandleClearHistory

appVars == <<messages, prompt, isLoading, error, waypoints, pois, rounds, nextRound, msgMeta,
             lastOp>>
vars == <<env, messages, prompt, isLoading, error, waypoints, pois, rounds, nextRound,
          msgMeta, lastOp, ej, pj>>

Spec == Init /\ [][Next]_vars

\* ------------------------------------------------------------- JSON texts
\* A JSON text is a sequence of one-character strings.  The labels
\* "WAYPOINTS:" and "POIS:" are single symbols of a text.
Quote == "\""
Digit == {"1", "2"}
WordChar == Digit \cup {"a", "b", "c", "e", "g", "l", "m", "n", "t", "A"}
Space == {" "}
EndOfText == ""

At(t, p) == IF p \in 1..Len(t) THEN t[p] ELSE EndOfText

Least(S) == CHOOSE q \in S : \A r \in S : q <= r
Greatest(S) == CHOOSE q \in S : \A r \in S : q >= r

\* The first position at or after p whose character is not in S.
RunEnd(t, p, S) == Least({q \in p..(Len(t) + 1) : At(t, q) \notin S})

SkipWs(t, p) == RunEnd(t, p, Space)

\* The first position at or after p holding c, 0 when there is none.
Find(t, c, p) ==
    LET hits == {q \in p..Len(t) : t[q] = c}
    IN  IF hits = {} THEN 0 ELSE Least(hits)

\* The last position holding c, 0 when there is none.
FindLast(t, c) ==
    LET hits == {q \in 1..Len(t) : t[q] = c}
    IN  IF hits = {} THEN 0 ELSE Greatest(hits)

\* JSON.parse: arrays, objects, strings (without escapes) and unsigned
\* integers; anything else is a SyntaxError (ok = FALSE).  A value is
\* [t, v]: t its kind, v the characters of a string or number, the
\* <<key, value>> pairs of an object, the elements of an array.
Fail == [ok |-> FALSE, val |-> <<>>, pos |-> 0]
Ok(kind, v, pos) == [ok |-> TRUE, val |-> [t |-> kind, v |-> v], pos |-> pos]

ParseString(t, p) ==
    LET q == Find(t, Quote, p + 1)
    IN  IF At(t, p) = Quote /\ q # 0 THEN Ok("str", SubSeq(t, p + 1, q - 1), q + 1) ELSE Fail

ParseNumber(t, p) ==
    IF At(t, p) \in Digit THEN Ok("num", SubSeq(t, p, RunEnd(t, p, Digit) - 1), RunEnd(t, p, Digit))
    ELSE Fail

RECURSIVE ParseValue(_, _)
RECURSIVE ParseMembers(_, _, _)
RECURSIVE ParseElements(_, _, _)

\* p is at the key of a member; acc holds the members read so far.
ParseMembers(t, p, acc) ==
    LET key == ParseString(t, p)
        colon == SkipWs(t, key.pos)
        value == ParseValue(t, SkipWs(t, colon + 1))
        next == SkipWs(t, value.pos)
        members == Append(acc, <<key.val.v, value.val>>)
    IN  IF ~key.ok \/ At(t, colon) # ":" THEN Fail
        ELSE IF ~value.ok THEN Fail
        ELSE IF At(t, next) = "}" THEN Ok("obj", members, next + 1)
        ELSE IF At(t, next) = "," THEN ParseMembers(t, SkipWs(t, next + 1), members)
        ELSE Fail

\* p is at an element; acc holds the elements read so far.
ParseElements(t, p, acc) ==
    LET value == ParseValue(t, p)
        next == SkipWs(t, value.pos)
        elements == Append(acc, value.val)
    IN  IF ~value.ok THEN Fail
        ELSE IF At(t, next) = "]" THEN Ok("arr", elements, next + 1)
        ELSE IF At(t, next) = "," THEN ParseElements(t, SkipWs(t, next + 1), elements)
        ELSE Fail

ParseValue(t, p) ==
    LET c == At(t, p)
        q == SkipWs(t, p + 1)
    IN  IF c = "[" THEN IF At(t, q) = "]" THEN Ok("arr", <<>>, q + 1)
                        ELSE ParseElements(t, q, <<>>)
        ELSE IF c = "{" THEN IF At(t, q) = "}" THEN Ok("obj", <<>>, q + 1)
                             ELSE ParseMembers(t, q, <<>>)
        ELSE IF c = Quote THEN ParseString(t, p)
        ELSE ParseNumber(t, p)

JsonParse(t) ==
    LET r == ParseValue(t, SkipWs(t, 1))
    IN  IF r.ok /\ SkipWs(t, r.pos) = Len(t) + 1 THEN r ELSE Fail

\* /([{,]\s*)(\w+)\s*:/ matches at position p.
BareKeyAt(t, p) ==
    LET w == SkipWs(t, p + 1)
        e == RunEnd(t, w, WordChar)
    IN  t[p] \in {"{", ","} /\ e > w /\ At(t, SkipWs(t, e)) = ":"

\* .replace(/([{,]\s*)(\w+)\s*:/g, '$1"$2":') from position p on: the
\* leftmost match, its replacement, then the rest after the match.
RECURSIVE QuoteKeys(_, _)
QuoteKeys(t, p) ==
    LET hits == {q \in p..Len(t) : BareKeyAt(t, q)}
        m == Least(hits)
        w == SkipWs(t, m + 1)
        e == RunEnd(t, w, WordChar)
        c == SkipWs(t, e)
    IN  IF hits = {} THEN SubSeq(t, p, Len(t))
        ELSE SubSeq(t, p, w - 1) \o <<Quote>> \o SubSeq(t, w, e - 1) \o <<Quote, ":">>
                \o QuoteKeys(t, c + 1)

\* /,\s*([}\]])/ matches at position p.
TrailingCommaAt(t, p) == t[p] = "," /\ At(t, SkipWs(t, p + 1)) \in {"}", "]"}

\* .replace(/,\s*([}\]])/g, '$1') from position p on.
RECURSIVE RemoveTrailingCommas(_, _)
RemoveTrailingCommas(t, p) ==
    LET hits == {q \in p..Len(t) : TrailingCommaAt(t, q)}
        m == Least(hits)
        c == SkipWs(t, m + 1)
    IN  IF hits = {} THEN SubSeq(t, p, Len(t))
        ELSE SubSeq(t, p, m - 1) \o <<t[c]>> \o RemoveTrailingCommas(t, c + 1)

\* jsonString.match(/(\[.*\])/s): from the first "[" to the last "]";
\* <<>> is no match.
MatchWidestArray(t) ==
    LET o == Find(t, "[", 1)
        c == FindLast(t, "]")
    IN  IF o # 0 /\ c > o THEN SubSeq(t, o, c) ELSE <<>>

\* parseAndCleanJson; ok = FALSE is null.
ParseAndCleanJson(jsonString) ==
    LET first == JsonParse(jsonString)
        cleanedString == RemoveTrailingCommas(QuoteKeys(jsonString, 1), 1)
        second == JsonParse(cleanedString)
        match == MatchWidestArray(jsonString)
    IN  IF first.ok THEN first
        ELSE IF second.ok THEN second
        ELSE IF match # <<>> THEN JsonParse(match)
        ELSE Fail

\* text.match(/LABEL\s*(\[.*?\])/s), searched from position p: the group,
\* from the "[" to the first "]" after it; <<>> is no match.
RECURSIVE MatchLabeledArray(_, _, _)
MatchLabeledArray(text, label, p) ==
    LET i == Find(text, label, p)
        o == SkipWs(text, i + 1)
        c == Find(text, "]", o + 1)
    IN  IF i = 0 THEN <<>>
        ELSE IF At(text, o) = "[" /\ c # 0 THEN SubSeq(text, o, c)
        ELSE MatchLabeledArray(text, label, i + 1)

KeyName == <<"n", "a", "m", "e">>
KeyLat == <<"l", "a", "t">>
KeyLng == <<"l", "n", "g">>

\* typeof item === 'object' && item !== null && 'name' in item && ...
IsWaypointShaped(item) ==
    /\ item.t \in {"obj", "arr"}
    /\ item.t = "obj"
    /\ {KeyName, KeyLat, KeyLng} \subseteq {item.v[k][1] : k \in 1..Len(item.v)}

\* parseWaypointsFromResponse on the characters of a response.
ParseWaypointsFromText(text) ==
    LET match == MatchLabeledArray(text, "WAYPOINTS:", 1)
        parsed == ParseAndCleanJson(match)
    IN  IF match = <<>> THEN [list |-> <<>>, err |-> Null]
        ELSE IF /\ parsed.ok
                /\ parsed.val.t = "arr"
                /\ \A k \in 1..Len(parsed.val.v) : IsWaypointShaped(parsed.val.v[k])
             THEN [list |-> parsed.val.v, err |-> Null]
             ELSE [list |-> <<>>, err |-> WaypointsInvalid]

\* ---------------------------------------------------------- parser inputs
\* The names of waypoints: plain, with a blank, with brackets, and with the
\* punctuation the repair expressions look for.
NameTexts == { <<"A">>, <<"A", " ", "b">>, <<"[", "A", "]">>,
               <<"a", ",", "b", ":", "c">>, <<"a", ",", "}">> }

\* How an array is written: keys quoted or bare, a comma before each closing
\* brace and bracket or none.
Styles == [quotedKeys : BOOLEAN, trailingCommas : BOOLEAN]
StrictStyle == [quotedKeys |-> TRUE, trailingCommas |-> FALSE]

Str(s) == <<Quote>> \o s \o <<Quote>>
Key(k, style) == IF style.quotedKeys THEN Str(k) ELSE k
Trailing(style) == IF style.trailingCommas THEN <<",">> ELSE <<>>

RenderRecord(name, style) ==
    <<"{">> \o Key(KeyName, style) \o <<":">> \o Str(name) \o <<",">>
       \o Key(KeyLat, style) \o <<":", "2", "1", ",">>
       \o Key(KeyLng, style) \o <<":", " ", "1", "2">> \o Trailing(style) \o <<"}">>

RECURSIVE RenderRecords(_, _, _)
RenderRecords(names, style, k) ==
    IF k > Len(names) THEN <<>>
    ELSE RenderRecord(names[k], style)
            \o (IF k < Len(names) THEN <<",">>
                ELSE Trailing(style))
            \o RenderRecords(names, style, k + 1)

RenderArray(names, style) == <<"[">> \o RenderRecords(names, style, 1) \o <<"]">>

\* The array the text stands for.
LogicalArray(names) ==
    [t |-> "arr",
     v |-> [k \in 1..Len(names) |->
              [t |-> "obj",
               v |-> << <<KeyName, [t |-> "str", v |-> names[k]]>>,
                        <<KeyLat, [t |-> "num", v |-> <<"2", "1">>]>>,
                        <<KeyLng, [t |-> "num", v |-> <<"1", "2">>]>> >>]]]

NameLists == SeqsUpTo(NameTexts, MaxRecords)
Leads == {<<>>, <<"A", " ">>}
Tails == {<<>>, <<" ", "POIS:", " ", "[", "]">>}

\* ------------------------------------------- parsers and gateway on their own
InitCalls ==
    /\ env = [tz |-> "Asia/Taipei", lenient |-> TRUE, geolocation |-> TRUE]
    /\ messages = <<initialMessage>>
    /\ prompt = <<>>
    /\ isLoading = FALSE
    /\ error = Null
    /\ waypoints = <<>>
    /\ pois = <<>>
    /\ rounds = [r \in RoundIds |-> Unused]
    /\ nextRound = 1
    /\ msgMeta = <<Meta(0, "welcome")>>
    /\ lastOp = Op("init", 0)
    /\ ej = NoJob
    /\ pj = NoCall

\* A direct call of parseWaypointsFromResponse.
ExtractInvoke ==
    /\ pj.fn = "idle"
    /\ \E names \in NameLists, style \in Styles, lead \in Leads, tail \in Tails :
          LET text == lead \o <<"WAYPOINTS:", " ">> \o RenderArray(names, style) \o tail
          IN  pj' = [fn |-> "parseWaypointsFromResponse", names |-> names, style |-> style,
                     text |-> text, result |-> ParseWaypointsFromText(text)]
    /\ UNCHANGED <<env, appVars, ej>>

\* A direct call of parseAndCleanJson.
RepairInvoke ==
    /\ pj.fn = "idle"
    /\ \E names \in NameLists, style \in Styles :
          LET text == RenderArray(names, style)
          IN  pj' = [fn |-> "parseAndCleanJson", names |-> names, style |-> style,
                     text |-> text, result |-> ParseAndCleanJson(text)]
    /\ UNCHANGED <<env, appVars, ej>>

\* A direct call of getWeatherForecast.
ForecastInvoke ==
    /\ pj.fn = "idle"
    /\ \E o \in FetchOutcomes :
          pj' = [fn |-> "getWeatherForecast", outcome |-> o, result |-> GetWeatherForecast(o)]
    /\ UNCHANGED <<env, appVars, ej>>

NextCalls == ExtractInvoke \/ RepairInvoke \/ ForecastInvoke

SpecCalls == InitCalls /\ [][NextCalls]_vars

\* ------------------------------------------------- the enricher on its own
InitEnrich ==
    /\ env \in [tz : TimeZones, lenient : BOOLEAN, geolocation : {TRUE}]
    /\ messages = <<initialMessage>>
    /\ prompt = <<>>
    /\ isLoading = FALSE
    /\ error = Null
    /\ waypoints = <<>>
    /\ pois = <<>>
    /\ rounds = [r \in RoundIds |-> Unused]
    /\ nextRound = 1
    /\ msgMeta = <<Meta(0, "welcome")>>
    /\ lastOp = Op("init", 0)
    /\ ej = NoJob
    /\ pj = NoCall

\* A direct call of addWeatherToItinerary.
EnrichInvoke ==
    /\ ej.status = "idle"
    /\ \E t \in Texts, w \in WaypointLists, s \in StartDateTexts :
          ej' = AddWeatherToItinerary(env, t, w, s)
    /\ UNCHANGED <<env, appVars, pj>>

\* The pending getWeatherForecast call settles.
EnrichWeather ==
    /\ ej.status = "awaitWeather"
    /\ \E o \in FetchOutcomes : ej' = EnrichResume(env, ej, GetWeatherForecast(o))
    /\ UNCHANGED <<env, appVars, pj>>

NextEnrich == EnrichInvoke \/ EnrichWeather

SpecEnrich == InitEnrich /\ [][NextEnrich]_vars

\* -------------------------------------------------- conversation properties
Submitting == lastOp' = Op("submit", 0)
EnrichedBy(r) == lastOp' = Op("enriched", r)
userState == <<messages, prompt, isLoading, error, waypoints, pois, rounds, nextRound>>

\* C1: at most one round awaits the location capability or the provider, and
\* a submission made while one does changes nothing: no message, no list
\* cleared, no second request.
C1_OneRoundInFlight ==
    [][ /\ Cardinality({r \in RoundIds : Awaiting(r)'}) <= 1
        /\ (Submitting /\ \E r \in RoundIds : Awaiting(r)) => UNCHANGED userState ]_vars

C1_Witness ==
    /\ lastOp = Op("submit", 0)
    /\ Trim(prompt) # <<>>
    /\ \E r \in RoundIds : rounds[r].pc = "awaitItinerary" /\ Len(rounds[r].genReqs) = 1

\* C2: an enrichment that resolves when the history is the cleared one (the
\* single welcome message, so cleared after the round's render with no
\* submission since) leaves it the single welcome message.
C2_ClearedStaysCleared ==
    [][ ((\E r \in RoundIds : EnrichedBy(r)) /\ messages = <<initialMessage>>)
           => messages' = <<initialMessage>> ]_vars

\* C3 as stated: the message an enrichment replaces is the raw assistant
\* message its own round appended, and the history keeps its length.
C3_ReplacesOwnMessage ==
    [][ \A r \in RoundIds : EnrichedBy(r) =>
           /\ msgMeta[Len(msgMeta)].round = r
           /\ msgMeta[Len(msgMeta)].kind = "raw"
           /\ Len(messages') = Len(messages) ]_vars

\* C3 amended: the enrichment replaces whatever message is last when it
\* resolves, by an assistant message carrying its enriched text, leaving all
\* earlier messages and the length of the history unchanged; that message
\* stands where the round appended its raw message when nothing was appended
\* or cleared since the round's render.
C3_ReplacesLastMessage ==
    [][ \A r \in RoundIds : EnrichedBy(r) =>
           /\ Len(messages') = Len(messages)
           /\ SubSeq(messages', 1, Len(messages) - 1) = SubSeq(messages, 1, Len(messages) - 1)
           /\ messages'[Len(messages)].role = "assistant"
           /\ \E o \in FetchOutcomes :
                 messages'[Len(messages)].content =
                    EnrichResume(env, rounds[r].job, GetWeatherForecast(o)).updatedItinerary
           /\ rounds[r].intact => (/\ msgMeta[Len(msgMeta)].round = r
                                    /\ msgMeta[Len(msgMeta)].kind = "raw") ]_vars

\* Round 1's enrichment resolved onto the user message of round 2.
C3_Witness ==
    /\ lastOp = Op("enriched", 1)
    /\ Len(msgMeta) >= 3
    /\ msgMeta[Len(msgMeta) - 1] = Meta(1, "raw")
    /\ msgMeta[Len(msgMeta)] = [round |-> 2, kind |-> "user", by |-> 1]
    /\ messages[Len(messages)].role = "assistant"
    /\ rounds[2].pc = "awaitItinerary"

\* C4: right after clear-history the history is the single welcome message,
\* both lists are empty and the error is cleared.
C4_ClearResets ==
    lastOp = Op("clear", 0) =>
       /\ messages = <<initialMessage>>
       /\ waypoints = <<>>
       /\ pois = <<>>
       /\ error = Null

\* Cleared while one round awaits the provider (loading) and another enriches.
C4_Witness ==
    /\ lastOp = Op("clear", 0)
    /\ isLoading
    /\ \E r \in RoundIds : rounds[r].pc = "enriching"
    /\ \E r \in RoundIds : rounds[r].pc = "awaitItinerary"

\* C5: submitting an empty or whitespace-only prompt changes nothing and
\* starts no round (no location or provider call).
C5_EmptyPromptNoop ==
    [][ (Submitting /\ Trim(prompt) = <<>>) => UNCHANGED userState ]_vars

C5_Witness ==
    /\ lastOp = Op("submit", 0)
    /\ prompt = <<" ", " ">>
    /\ ~isLoading

PastExtraction(r) == rounds[r].pc \in {"enriching", "done"}

\* C6 as stated: a round whose response had no start date or no waypoint
\* makes no forecast request and its assistant message is never replaced.
C6_NeverReplaced ==
    \A r \in RoundIds : (PastExtraction(r) /\ ~rounds[r].eligible) =>
       /\ rounds[r].forecastCalls = 0
       /\ rounds[r].rawReplacedBy = 0

\* C6 amended: such a round makes no forecast request and replaces no
\* message; its own assistant message can be replaced only by the enrichment
\* of an earlier round.
C6_NoEnrichment ==
    \A r \in RoundIds : (PastExtraction(r) /\ ~rounds[r].eligible) =>
       /\ rounds[r].pc = "done"
       /\ rounds[r].forecastCalls = 0
       /\ ~rounds[r].replaced
       /\ rounds[r].rawReplacedBy < r

C6_Witness ==
    /\ rounds[2].pc = "done"
    /\ ~rounds[2].eligible
    /\ rounds[2].rawReplacedBy = 1
    /\ waypoints = <<>>

Accepted == Submitting /\ ~(Trim(prompt) = <<>> \/ isLoading)
Located(r) == lastOp' = Op("position", r)

ProviderFailed(r) == lastOp' = Op("itineraryFailed", r)

\* C11: when the provider call of round r fails, the error is the failure
\* message, the history grows by exactly one assistant message describing the
\* failure (the round's only message besides its user message), loading is
\* cleared, both lists are empty and the round has no enrichment and no
\* forecast request.
C11_ProviderFailureEndsRound ==
    [][ \A r \in RoundIds : ProviderFailed(r) =>
           /\ error' \in {KeyInvalid, NoResponse}
           /\ messages' = Append(messages, [role |-> "assistant",
                                            content |-> ErrorText(error')])
           /\ {k \in 1..Len(msgMeta') : msgMeta'[k].round = r /\ msgMeta'[k].kind # "user"}
                 = {Len(msgMeta')}
           /\ ~isLoading'
           /\ prompt' = <<>>
           /\ waypoints' = <<>>
           /\ pois' = <<>>
           /\ rounds'[r].pc = "failed"
           /\ rounds'[r].job = NoJob
           /\ rounds'[r].forecastCalls = 0
           /\ ~rounds'[r].replaced ]_vars

\* Round 2's provider call failed while round 1's enrichment is pending.
C11_Witness ==
    /\ lastOp = Op("itineraryFailed", 2)
    /\ error = KeyInvalid
    /\ ~isLoading
    /\ rounds[1].pc = "enriching"
    /\ waypoints = <<>>

Rendered(r) == lastOp' = Op("itinerary", r)
EnrichmentPending(r) == rounds[r].pc = "enriching" /\ rounds[r].job.status = "awaitWeather"

\* C12: the step that appends a round's raw assistant message leaves loading
\* false and the input empty, whether or not the round's enrichment is still
\* pending; a non-empty submission made while an enrichment is pending and
\* no round is loading starts a new round.
C12_LoadingClearedAtRender ==
    [][ /\ \A r \in RoundIds : Rendered(r) =>
              /\ ~isLoading'
              /\ prompt' = <<>>
              /\ messages'[Len(messages')].role = "assistant"
        /\ ( /\ Submitting
             /\ Trim(prompt) # <<>>
             /\ nextRound \in RoundIds
             /\ \E r \in RoundIds : EnrichmentPending(r)
             /\ ~\E r \in RoundIds : Awaiting(r) )
           => /\ rounds'[nextRound].pc \in {"awaitPosition", "failed"}
              /\ rounds'[nextRound].prompt = IF env.geolocation THEN prompt ELSE <<>>
              /\ nextRound' = nextRound + 1
              /\ Len(messages') > Len(messages) ]_vars

\* Round 2 was accepted while round 1's enrichment is still pending.
C12_Witness ==
    /\ lastOp = Op("submit", 0)
    /\ rounds[1].pc = "enriching"
    /\ rounds[1].job.status = "awaitWeather"
    /\ rounds[2].pc = "awaitPosition"
    /\ isLoading

Malformed(region, keys) ==
    /\ region.label
    /\ ~region.parses \/ \E k \in 1..Len(region.items) : ~(keys \subseteq DOMAIN region.items[k])
WellFormed(region, keys) == region.label /\ ~Malformed(region, keys)

\* C13: when the WAYPOINTS (resp. POIS) region of a response is unparsable
\* or shape-invalid, the render step still appends the assistant message
\* carrying the response and the round goes on; that list is empty, the
\* matching error is recorded (the POIS one when both regions are bad), and
\* the other region, when well-formed, is extracted as it stands.
C13_MalformedRegionNotFatal ==
    [][ \A r \in RoundIds, resp \in ProviderResponses :
          (Rendered(r) /\ messages'[Len(messages')].content = RawText(resp)) =>
             /\ rounds'[r].pc \in {"enriching", "done"}
             /\ Len(messages') = Len(messages) + 1
             /\ messages'[Len(messages')].role = "assistant"
             /\ Malformed(resp.wp, {"name", "lat", "lng"}) =>
                   /\ waypoints' = <<>>
                   /\ error' \in {WaypointsInvalid, PoisInvalid}
                   /\ WellFormed(resp.poi, {"name", "address", "lat", "lng"}) =>
                         (pois' = resp.poi.items /\ error' = WaypointsInvalid)
             /\ Malformed(resp.poi, {"name", "address", "lat", "lng"}) =>
                   /\ pois' = <<>>
                   /\ error' = PoisInvalid
                   /\ WellFormed(resp.wp, {"name", "lat", "lng"}) =>
                         waypoints' = resp.wp.items ]_vars

\* A response with an unparsable WAYPOINTS region and a good POIS region was
\* rendered.
C13_Witness ==
    /\ \E r \in RoundIds : lastOp = Op("itinerary", r)
    /\ error = WaypointsInvalid
    /\ waypoints = <<>>
    /\ pois = <<PoiT>>
    /\ messages[Len(messages)].role = "assistant"
    /\ messages[Len(messages)].content[1] = "START_DATE..badWaypoints"

\* C18 as stated: at most one round's enrichment is unresolved.
C18_OnePending ==
    Cardinality({r \in RoundIds : rounds[r].pc = "enriching"}) <= 1

\* C18 amended: enrichments of several rounds can be unresolved together,
\* one per round; each belongs to a round that was rendered with a start
\* date and waypoints, has made a forecast request, has replaced nothing
\* yet, and no longer holds the loading flag: loading is set only while a
\* later round awaits the location capability or the provider.
C18_PendingOnlyAfterRender ==
    \A r \in RoundIds : rounds[r].pc = "enriching" =>
       /\ rounds[r].job.status = "awaitWeather"
       /\ rounds[r].eligible
       /\ rounds[r].forecastCalls >= 1
       /\ ~rounds[r].replaced
       /\ \E k \in 1..Len(rounds[r].genReqs) : rounds[r].genReqs[k].prompt = rounds[r].prompt
       /\ isLoading => \E later \in RoundIds : later > r /\ Awaiting(later)

\* The enrichments of rounds 1 and 2 are both unresolved.
C18_Witness ==
    /\ rounds[1].pc = "enriching"
    /\ rounds[2].pc = "enriching"
    /\ rounds[1].job.status = "awaitWeather"
    /\ rounds[2].job.status = "awaitWeather"
    /\ ~isLoading

Completed(r) == lastOp' = Op("itinerary", r) \/ lastOp' = Op("itineraryFailed", r)

\* C19: when a round completes (its provider call resolves or fails) while
\* the history is the single welcome message, that is after a clear made
\* since the round's submission, the history stays the single welcome
\* message and both lists stay empty.
C19_CompletionKeepsCleared ==
    [][ \A r \in RoundIds :
          (Completed(r) /\ Awaiting(r) /\ messages = <<initialMessage>>) =>
             /\ messages' = <<initialMessage>>
             /\ waypoints' = <<>>
             /\ pois' = <<>> ]_vars

\* C20: the step that renders round r appends its message to an untouched
\* history (a replacement made in the same step hits only the appended
\* message), and comes after the round's provider request and before any of
\* its forecast requests; a round makes forecast requests and replaces a
\* message only at or after its render.
C20_RenderBeforeReplacement ==
    [][ \A r \in RoundIds :
          /\ Rendered(r) =>
                /\ Len(messages') = Len(messages) + 1
                /\ SubSeq(messages', 1, Len(messages)) = messages
                /\ Len(rounds[r].genReqs) = 1
                /\ rounds[r].forecastCalls = 0
                /\ ~rounds[r].replaced
          /\ EnrichedBy(r) => (rounds[r].pc = "enriching" /\ rounds[r].forecastCalls >= 1)
          /\ (~Started(r) /\ rounds'[r].pc # "unused") =>
                (rounds'[r].forecastCalls = 0 /\ ~rounds'[r].replaced)
          /\ (Started(r) /\ rounds'[r].forecastCalls > rounds[r].forecastCalls) =>
                (Rendered(r) \/ rounds[r].pc = "enriching")
          /\ (Started(r) /\ rounds'[r].replaced /\ ~rounds[r].replaced) =>
                (Rendered(r) \/ rounds[r].pc = "enriching") ]_vars

\* Round 1's enrichment, after two steps of the round (render, forecast),
\* replaced the round's own raw message.
C20_Witness ==
    /\ lastOp = Op("enriched", 1)
    /\ rounds[1].replaced
    /\ rounds[1].rawReplacedBy = 1
    /\ rounds[1].forecastCalls >= 1
    /\ messages[Len(messages)].role = "assistant"

UserMessage(p) == [role |-> "user", content |-> p]
StillAwaiting(r) == rounds'[r].pc \in {"awaitPosition", "awaitItinerary"}
Cleared == lastOp' = Op("clear", 0)

Extracted == pj.fn = "parseWaypointsFromResponse"
Repaired == pj.fn = "parseAndCleanJson"

\* C14: a well-formed array of waypoint records written after the WAYPOINTS
\* label is extracted as that array, whatever the names contain.
C14_ExtractRoundTrip ==
    (Extracted /\ pj.style = StrictStyle) =>
       /\ pj.result.err = Null
       /\ pj.result.list = LogicalArray(pj.names).v

\* C15: an array written with bare keys and/or trailing commas is repaired
\* to the array its well-formed writing parses to, whatever the string
\* values contain.
C15_RepairEqualsStrict ==
    Repaired =>
       /\ JsonParse(RenderArray(pj.names, StrictStyle)).ok
       /\ pj.result.ok
       /\ pj.result.val = JsonParse(RenderArray(pj.names, StrictStyle)).val

\* ------------------------------------------------------- gateway properties
Forecast == pj.fn = "getWeatherForecast"

\* The response carries a weather code and both temperatures for the date.
HasForecastData(o) ==
    /\ o.kind = "daily"
    /\ o.ok
    /\ Len(o.weathercode) > 0
    /\ Len(o.tmin) > 0
    /\ Len(o.tmax) > 0

\* C16: the gateway returns a value for every outcome of the request; the
\* value is none when the provider is unreachable, answers with a
\* non-success status or has no data for the date (empty daily series
\* included), and a forecast string only when the data is there.
C16_NoneWithoutData ==
    Forecast => (pj.result # Null <=> HasForecastData(pj.outcome))

\* ------------------------------------------------------ enricher properties
\* Insert lines[k] right after the k-th heading span, for k = n down to 1.
RECURSIVE Splice(_, _, _, _)
Splice(text, spans, lines, n) ==
    IF n = 0 THEN text
    ELSE Splice(SubSeq(text, 1, spans[n][2]) \o <<lines[n]>>
                  \o SubSeq(text, spans[n][2] + 1, Len(text)),
                spans, lines, n - 1)

ForecastLine(weatherInfo) ==
    WeatherHtml(IF weatherInfo = Null THEN Unavailable ELSE weatherInfo)

EnrichStarted == ej.status # "idle"

\* C7: with a valid start date and a non-empty waypoint list, the k-th
\* forecast request (heading index k-1) carries the coordinates of
\* waypoints[k] (0-based) when it exists, else of the last waypoint, and the
\* date start + (k-1) calendar days; one request per heading, in order.
C7_RequestPerHeading ==
    (EnrichStarted /\ IsCalendarDate(ej.startDateStr) /\ Len(ej.waypoints) > 0) =>
       /\ \A k \in 1..Len(ej.reqs) :
             LET w == IF k + 1 <= Len(ej.waypoints) THEN ej.waypoints[k + 1]
                      ELSE ej.waypoints[Len(ej.waypoints)]
             IN  /\ ej.reqs[k].lat = w.lat
                 /\ ej.reqs[k].lng = w.lng
                 /\ ej.reqs[k].date = DateOfDay(DayIndex(ej.startDateStr) + k - 1)
       /\ ej.status = "returned" => Len(ej.reqs) = Len(ej.dayHeadings)

\* C8: when enrich returns, every heading has been processed and each
\* heading is followed by its own line: the unavailable marker exactly where
\* the gateway returned none, the returned forecast elsewhere.
C8_MarkerPerHeading ==
    (ej.status = "returned" /\ NewDate(ej.startDateStr, env.lenient) # NaN
        /\ Len(ej.waypoints) > 0) =>
       /\ Len(ej.infos) = Len(ej.dayHeadings)
       /\ ej.updatedItinerary =
            Splice(ej.itineraryText, HeadingSpans(ej.itineraryText, 1),
                   [k \in 1..Len(ej.infos) |-> ForecastLine(ej.infos[k])],
                   Len(ej.infos))

\* C9: a start-date text that does not parse to a valid date makes enrich
\* return the itinerary text unchanged without any forecast request.
C9_InvalidDateUnchanged ==
    (EnrichStarted /\ NewDate(ej.startDateStr, env.lenient) = NaN) =>
       /\ ej.status = "returned"
       /\ ej.updatedItinerary = ej.itineraryText
       /\ ej.reqs = <<>>

C9_Witness ==
    /\ EnrichStarted
    /\ NewDate(ej.startDateStr, env.lenient) = NaN
    /\ Len(ej.dayHeadings) >= 2
    /\ Len(ej.waypoints) >= 2
    /\ ej.status = "returned"


IsForecastLine(s) == \E info \in {ej.infos[k] : k \in 1..Len(ej.infos)} : s = ForecastLine(info)

\* C17: in the text enrich returns for a valid start date and a non-empty
\* waypoint list, the k-th heading stands where it stood, moved down by the
\* k - 1 lines inserted above it, the symbol right after it is the line
\* produced for the k-th heading, and nothing else was inserted; so the
\* lines follow their headings in heading order.
C17_ForecastAfterEachHeading ==
    (ej.status = "returned" /\ NewDate(ej.startDateStr, env.lenient) # NaN
        /\ Len(ej.waypoints) > 0) =>
       LET spans == HeadingSpans(ej.itineraryText, 1)
           out == ej.updatedItinerary
       IN  /\ Len(out) = Len(ej.itineraryText) + Len(spans)
           /\ \A k \in 1..Len(spans) :
                 /\ SubSeq(out, spans[k][1] + k - 1, spans[k][2] + k - 1) = ej.dayHeadings[k]
                 /\ out[spans[k][2] + k] = ForecastLine(ej.infos[k])
           /\ Cardinality({p \in 1..Len(out) : IsForecastLine(out[p])}) = Len(spans)
====
